---- MODULE Spec2Model ----
(***************************************************************************)
(* A model of LODManager (src/unnamed/part_000): the registry of LOD       *)
(* nodes, level synthesis by cloning and stride decimation, distance       *)
(* based selection, manual override, memory accounting and teardown.       *)
(* The three.js objects the manager drives (Mesh.clone, LOD.addLevel,      *)
(* LOD.update, Object3D.add / removeFromParent) are modelled by what they  *)
(* do to the fields the manager reads: parent, children, levels, visible   *)
(* and the geometry's position attribute.                                  *)
(* Beside it: decimateVertices as a function of its own, a caller holding  *)
(* configuration objects, App.loadDefaultIFC (src/unnamed/part_001) and    *)
(* the click selection of IFCViewer (src/src/core/IFCViewer.ts).           *)
(***************************************************************************)
EXTENDS Integers, Sequences, FiniteSets, TLC

\* ------------------------------------------------------------- bounds
MaxVerts == 20
MaxFaults == 1

\* the models the viewer has loaded, each with its own mesh; a run registers
\* the models of Single, or all of ModelIDs
ModelIDs == {1, 2}
Single == {1}
NodeIDs == 1 .. (Cardinality(ModelIDs) + 1)
NoNode == 0

\* viewpoint distances tried by updateSelection and currentLevel
Distances == {0, 30, 50, 60, 300, 600}
UpdateDistances == {0, 60, 600}

\* a Float32Array holds 4 bytes per component, a point has 3 components
BytesPerFloat == 4
Components == 3

Max(a, b) == IF a >= b THEN a ELSE b

\* ------------------------------------------------------ configuration
\* simplificationRatio is held in hundredths (0.5 is 50)
Lvl(d, r, v) == [distance |-> d, ratio |-> r, visible |-> v]

DefaultLevels ==
  << Lvl(0, 100, TRUE), Lvl(50, 50, TRUE), Lvl(200, 20, TRUE), Lvl(500, 5, FALSE) >>

\* level lists a caller may pass to setConfig
GapLevels == << Lvl(0, 100, TRUE), Lvl(50, 50, FALSE), Lvl(200, 20, TRUE) >>
ShortLevels == << Lvl(0, 100, TRUE), Lvl(50, 50, TRUE) >>
LevelChoices == {DefaultLevels, GapLevels, ShortLevels}

MaxLevels == 4

\* how synthesis of one level can be made to fail by the mesh it is given
Stages == {"none", "clone", "material"}

\* --------------------------------------------------------------- state
VARIABLES
  config,      \* this.config: [levels, autoSwitch]
  lodObjects,  \* this.lodObjects: the Map's entries [id, node] in insertion order
  nodes,       \* the LOD nodes: node -> its fields (Dead when not in use)
  geom,        \* model id -> the position attribute of model.mesh's geometry
  inScene,     \* model id -> model.mesh is a child of the scene parent
  meshVisible, \* model id -> the visible flag of model.mesh
  unboundTHREE,\* the free identifier THREE has no binding at run time
  last,        \* the last call made and what it was given
  positions,   \* decimateVertices called on its own: the points it is given
  targetCount, \* and the target count it is given
  simplified,  \* what that call gave back
  held,        \* the config object a caller of the manager holds
  pc,          \* App.loadDefaultIFC: where the call stands
  retryCount,  \* its retryCount
  attempts,    \* the number of fetches it has started
  button,      \* the load button: "poc" as set up, "on" / "off" by showLoading
  status,      \* response.status of the last response
  error,       \* the error last caught
  message,     \* the type of the message last shown
  enableProperties, \* IFCViewer config.enableProperties
  selectedObject,   \* IFCViewer state.selectedObject: an object, or NoObject for null
  pending,     \* the selectObject calls waiting for their property look-up
  lastClick,   \* what the last click hit: an object, or NoObject
  lastEvent,   \* the selection event emitted last
  clicks       \* the number of clicks handled

\* the state of a decimateVertices call made on its own
decVars == << positions, targetCount, simplified >>

\* the state of App.loadDefaultIFC
appVars == << pc, retryCount, attempts, button, status, error, message >>

\* the state of the viewer's selection
viewerVars == << enableProperties, selectedObject, pending, lastClick, lastEvent, clicks >>

\* what the operations of the LOD manager leave alone
aside == << decVars, appVars, viewerVars >>

lodVars == << config, lodObjects, nodes, geom, inScene, meshVisible, unboundTHREE, last >>

vars == << lodVars, decVars, held, appVars, viewerVars >>

\* a Float32Array element: integers up to 2^24 are stored as they are, the
\* ones above it (up to 2^25) as the nearest even integer, a tie going to the
\* multiple of 4
Exact32 == 16777216

Fround(x) ==
  LET a == IF x < 0 THEN 0 - x ELSE x
      r == IF a <= Exact32 \/ a % 2 = 0 THEN a
           ELSE IF (a + 1) % 4 = 0 THEN a + 1 ELSE a - 1
  IN IF x < 0 THEN 0 - r ELSE r

\* the i-th point of the vertex buffer a mesh is loaded with (x, y, z, each a
\* Float32Array element), and the buffer: points 1..n in order
Point(i) == << i, Exact32 + 2 * i, 0 - i >>
Points(n) == [i \in 1 .. n |-> Point(i)]
VertexCount(m) == IF m = 1 THEN MaxVerts ELSE 6

\* op: the call; id: its model (for dispose: the model at which the call
\* raised, 0 when it returned); arg: its level or distance (for dispose: 1
\* when the call before it was a dispose too). For a
\* registration also what it was given: the stage at which each level's
\* synthesis fails, whether the mesh was a child of the scene, whether the
\* id was managed and the mesh's vertex count
CallWith(op, id, arg, fail, attached, managed, n) ==
  [op |-> op, id |-> id, arg |-> arg, fail |-> fail, attached |-> attached,
   managed |-> managed, n |-> n]
Call(op, id, arg) == CallWith(op, id, arg, << >>, FALSE, FALSE, 0)
NoCall == Call("init", 0, 0)

\* ------------------------------------------------------- decimation
\* decimateVertices with the loop stopping one point early (i < originalCount - 1)
DecimateDroppingLast(points, target) ==
  LET originalCount == Len(points)
      step == Max(1, originalCount \div target)
      kept == { i \in 0 .. (originalCount - 2) : i % step = 0 }
  IN [j \in 1 .. Cardinality(kept) |->
        [c \in 1 .. Components |-> Fround(points[(j - 1) * step + 1][c])]]

\* decimateVertices with the step rounded up (Math.ceil for Math.floor)
DecimateRoundingUp(points, target) ==
  LET originalCount == Len(points)
      step == Max(1, (originalCount + target - 1) \div target)
      kept == { i \in 0 .. (originalCount - 1) : i % step = 0 }
  IN [j \in 1 .. Cardinality(kept) |->
        [c \in 1 .. Components |-> Fround(points[(j - 1) * step + 1][c])]]

\* decimateVertices pushing positions[index + 1] three times (the y of a point
\* for each of its coordinates)
DecimateRepeatingY(points, target) ==
  LET originalCount == Len(points)
      step == Max(1, originalCount \div target)
      kept == { i \in 0 .. (originalCount - 1) : i % step = 0 }
  IN [j \in 1 .. Cardinality(kept) |->
        [c \in 1 .. Components |-> Fround(points[(j - 1) * step + 1][2])]]

\* decimateVertices: every step-th point, in order
DecimateVertices(points, target) ==
  LET originalCount == Len(points)
      step == Max(1, originalCount \div target)
      kept == { i \in 0 .. (originalCount - 1) :
                  /\ i % step = 0
                  /\ Components * i + 2 < Components * originalCount }
  IN [j \in 1 .. Cardinality(kept) |->
        [c \in 1 .. Components |-> Fround(points[(j - 1) * step + 1][c])]]

\* decimateVertices as a call: it ends with new THREE.BufferAttribute, and the
\* file imports names from 'three' but binds no THREE, so that expression
\* throws a ReferenceError unless the page defines a global THREE (three)
Decimate(points, target, three) ==
  IF three THEN [threw |-> FALSE, positions |-> DecimateVertices(points, target)]
  ELSE [threw |-> TRUE, positions |-> points]

\* simplifyGeometry on the one geometry the mesh holds: the new position
\* attribute, or a throw
SimplifyGeometry(points, ratio, three) ==
  LET originalCount == Len(points)
      target == Max(3, (originalCount * ratio) \div 100)
  IN IF target < originalCount
       THEN Decimate(points, target, three)
       ELSE [threw |-> FALSE, positions |-> points]

\* createLODLevel: what is returned ("null", "clone" or "orig") and the
\* position attribute of the geometry afterwards. Mesh.clone copies the
\* reference to the geometry, so the clone and the original hold the same one.
CreateLODLevel(points, level, levelIndex, stage, three) ==
  LET caught(p) == [res |-> IF levelIndex = 0 THEN "orig" ELSE "null", positions |-> p]
  IN IF ~level.visible THEN [res |-> "null", positions |-> points]
     ELSE IF stage = "clone" THEN caught(points)
     ELSE LET s == IF level.ratio < 100 /\ levelIndex > 0
                     THEN SimplifyGeometry(points, level.ratio, three)
                     ELSE [threw |-> FALSE, positions |-> points]
          IN IF s.threw THEN caught(s.positions)
             ELSE IF stage = "material" THEN caught(s.positions)
             ELSE [res |-> "clone", positions |-> s.positions]

\* ------------------------------------------------------------ LOD node
Obj(k, orig) == [k |-> k, orig |-> orig]

\* LOD.addLevel: levels kept sorted by distance, a tie goes after
InsertAt(s, l, e) == SubSeq(s, 1, l - 1) \o << e >> \o SubSeq(s, l, Len(s))

AddLevelPos(levels, distance) ==
  LET later == { l \in 1 .. Len(levels) : distance < levels[l].distance }
  IN IF later = {} THEN Len(levels) + 1
     ELSE CHOOSE l \in later : \A l2 \in later : l <= l2

AddLevel(node, obj, distance) ==
  [node EXCEPT
     !.levels = InsertAt(@, AddLevelPos(@, distance), [distance |-> distance, object |-> obj]),
     !.children = Append(@, obj)]

EmptyLOD(m) == [mesh |-> m, levels |-> << >>, children |-> << >>,
                visible |-> {}, attached |-> FALSE]
Dead == EmptyLOD(0)

\* the forEach of createLODForModel from level index k on
RECURSIVE BuildLevels(_, _, _, _, _, _)
BuildLevels(k, levels, fail, three, cloneVisible, acc) ==
  IF k >= Len(levels) THEN acc
  ELSE LET level == levels[k + 1]
           made == CreateLODLevel(acc.positions, level, k, fail[k + 1], three)
           node1 == IF made.res = "null" THEN acc.node
                    ELSE AddLevel(acc.node, Obj(k, made.res = "orig"), level.distance)
           node2 == IF made.res = "clone" /\ cloneVisible
                      THEN [node1 EXCEPT !.visible = @ \cup {k}]
                      ELSE node1
       IN BuildLevels(k + 1, levels, fail, three, cloneVisible,
                      [node |-> node2, positions |-> made.positions,
                       origTaken |-> acc.origTaken \/ made.res = "orig"])

RemoveObj(s, obj) == SelectSeq(s, LAMBDA o : o # obj)

IsVisible(node, obj) ==
  IF obj.orig THEN meshVisible[node.mesh] ELSE obj.k \in node.visible

\* the node ids in use, and the one a new LOD() gets
Used(nds) == { n \in NodeIDs : nds[n] # Dead }
FreshNode(nds) ==
  CHOOSE n \in NodeIDs \ Used(nds) : \A n2 \in NodeIDs \ Used(nds) : n <= n2

\* Map.has / get / delete / set on the entries
MapHas(map, id) == \E i \in 1 .. Len(map) : map[i].id = id
MapGet(map, id) ==
  IF MapHas(map, id) THEN map[CHOOSE i \in 1 .. Len(map) : map[i].id = id].node ELSE NoNode
MapDelete(map, id) == SelectSeq(map, LAMBDA e : e.id # id)
MapSet(map, id, n) ==
  IF MapHas(map, id)
    THEN [i \in 1 .. Len(map) |-> IF map[i].id = id THEN [id |-> id, node |-> n] ELSE map[i]]
    ELSE Append(map, [id |-> id, node |-> n])
MapNodes(map) == { map[i].node : i \in 1 .. Len(map) }

Managed(id) == MapHas(lodObjects, id)
NodeOf(id) == nodes[MapGet(lodObjects, id)]

\* ------------------------------------------------------------- queries
\* getCurrentLODLevel
RECURSIVE ScanDown(_, _, _)
ScanDown(levels, i, distance) ==
  IF i < 0 THEN 0
  ELSE IF distance >= levels[i + 1].distance THEN i
  ELSE ScanDown(levels, i - 1, distance)

GetCurrentLODLevel(id, distance) ==
  IF ~Managed(id) THEN 0
  ELSE ScanDown(config.levels, Len(config.levels) - 1, distance)

\* getMemoryUsage: byLevel starts as Len(config.levels) zeros; adding to an
\* index past its end leaves NaN there (undefined + number)
NaN == 0 - 1
Hole == 0 - 2

AddAt(byLevel, index, memory) ==
  IF index < Len(byLevel)
    THEN [byLevel EXCEPT ![index + 1] = IF @ < 0 THEN NaN ELSE @ + memory]
    ELSE [i \in 1 .. (index + 1) |->
            IF i <= Len(byLevel) THEN byLevel[i] ELSE IF i = index + 1 THEN NaN ELSE Hole]

RECURSIVE MemChildren(_, _, _, _)
MemChildren(nchildren, index, memory, acc) ==
  IF index >= nchildren THEN acc
  ELSE MemChildren(nchildren, index + 1, memory,
                   [total |-> acc.total + memory,
                    byLevel |-> AddAt(acc.byLevel, index, memory)])

RECURSIVE MemEntries(_, _, _, _, _)
MemEntries(map, i, nds, g, acc) ==
  IF i > Len(map) THEN acc
  ELSE LET node == nds[map[i].node]
           memory == BytesPerFloat * Components * Len(g[node.mesh])
       IN MemEntries(map, i + 1, nds, g, MemChildren(Len(node.children), 0, memory, acc))

GetMemoryUsage ==
  MemEntries(lodObjects, 1, nodes, geom,
             [total |-> 0, byLevel |-> [i \in 1 .. Len(config.levels) |-> 0]])

\* ---------------------------------------------------------------- Init
\* no call of decimateVertices on its own has been made
NotCalled == [called |-> FALSE, threw |-> FALSE, positions |-> << >>]

NoDecimation ==
  /\ positions = << >>
  /\ targetCount = 3
  /\ simplified = NotCalled

\* the object a caller holds: its levels array and autoSwitch field; shares
\* says that its levels array is the very array this.config.levels refers to
Held(levels, autoSwitch, shares) ==
  [levels |-> levels, autoSwitch |-> autoSwitch, shares |-> shares]
NothingHeld == Held(<< >>, FALSE, FALSE)

DefaultConfig == [levels |-> DefaultLevels, autoSwitch |-> TRUE]

\* a manager constructed with the configuration cfg, and the models loaded
\* beside it
InitWith(cfg) ==
  /\ config = cfg
  /\ lodObjects = << >>
  /\ nodes = [n \in NodeIDs |-> Dead]
  /\ geom = [m \in ModelIDs |-> Points(VertexCount(m))]
  /\ inScene = [m \in ModelIDs |-> TRUE]
  /\ meshVisible = [m \in ModelIDs |-> TRUE]
  /\ unboundTHREE \in BOOLEAN
  /\ last = NoCall

\* new LODManager(), as the viewer constructs it
InitLOD ==
  /\ InitWith(DefaultConfig)
  /\ held = NothingHeld

\* loadDefaultIFC has not been called
NoLoad ==
  /\ pc = "idle"
  /\ retryCount = 0
  /\ attempts = 0
  /\ button = "poc"
  /\ status = 0
  /\ error = "none"
  /\ message = "none"

\* the objects a click can hit, and null
Objects == {1, 2}
NoObject == 0

\* a viewer constructed as App constructs it, nothing clicked yet
ViewerWith(properties) ==
  /\ enableProperties = properties
  /\ selectedObject = NoObject
  /\ pending = << >>
  /\ lastClick = NoObject
  /\ lastEvent = "none"
  /\ clicks = 0

NoClicks == ViewerWith(TRUE)

Init ==
  /\ InitLOD
  /\ NoDecimation
  /\ NoLoad
  /\ NoClicks

\* ------------------------------------------------------- operations
\* removeLODForModel without lodObject.removeFromParent(): a node still under
\* the scene stays there
RemoveKeepingParent(map, nds, id) ==
  IF MapHas(map, id)
    THEN [map |-> MapDelete(map, id),
          nodes |-> [nds EXCEPT ![MapGet(map, id)] = IF @.attached THEN @ ELSE Dead]]
    ELSE [map |-> map, nodes |-> nds]

\* removeLODForModel on (entries, nodes): the node leaves its parent and the
\* entry is deleted; a node neither registered nor attached is garbage
RemoveLODForModel(map, nds, id) ==
  IF MapHas(map, id)
    THEN [map |-> MapDelete(map, id),
          nodes |-> [nds EXCEPT ![MapGet(map, id)] = Dead]]
    ELSE [map |-> map, nodes |-> nds]

\* the synthesis failures a call may meet: a stage per level that is
\* synthesized at all, at most MaxFaults of them failing
FailChoices(levels, maxFaults) ==
  { f \in [1 .. Len(levels) -> Stages] :
      /\ \A i \in 1 .. Len(levels) : ~levels[i].visible => f[i] = "none"
      /\ Cardinality({ i \in 1 .. Len(levels) : f[i] # "none" }) <= maxFaults }

\* createLODForModel(model): model.modelID is id, model.mesh is mesh id
CreateLODForModel(id, fail) ==
  LET m == id IN
  LET removed == IF MapHas(lodObjects, id)
                   THEN RemoveLODForModel(lodObjects, nodes, id)
                   ELSE [map |-> lodObjects, nodes |-> nodes]
      n == FreshNode(removed.nodes)
      built == BuildLevels(0, config.levels, fail, ~unboundTHREE, meshVisible[m],
                           [node |-> EmptyLOD(m), positions |-> geom[m], origTaken |-> FALSE])
      \* originalMesh.parent?.add(lodObject): the parent is the LOD node itself
      \* when level 0 fell back to the original mesh, and add() refuses that
      attach == inScene[m] /\ ~built.origTaken
      \* originalMesh.removeFromParent()
      final == [built.node EXCEPT !.attached = attach,
                                  !.children = RemoveObj(@, Obj(0, TRUE))]
  IN /\ NodeIDs \ Used(removed.nodes) # {}
     /\ lodObjects' = MapSet(removed.map, id, n)
     /\ nodes' = [removed.nodes EXCEPT ![n] = final]
     /\ geom' = [geom EXCEPT ![m] = built.positions]
     /\ inScene' = [inScene EXCEPT ![m] = FALSE]
     /\ last' = CallWith("register", id, 0, fail, inScene[m], Managed(id), Len(geom[m]))
     /\ UNCHANGED << config, meshVisible, unboundTHREE >>
     /\ UNCHANGED << held, aside >>

RegisterModelOf(ids, maxFaults) ==
  \E id \in ids : \E fail \in FailChoices(config.levels, maxFaults) :
    CreateLODForModel(id, fail)

\* removeLODForModel(id), managed or not
UnregisterModelOf(ids) ==
  \E id \in ids :
    LET removed == RemoveLODForModel(lodObjects, nodes, id)
    IN /\ lodObjects' = removed.map
       /\ nodes' = removed.nodes
       /\ last' = Call("unregister", id, 0)
       /\ UNCHANGED << config, geom, inScene, meshVisible, unboundTHREE >>
       /\ UNCHANGED << held, aside >>

\* LOD.update: the index into levels that ends up visible
RECURSIVE Advance(_, _, _)
Advance(levels, i, distance) ==
  IF i <= Len(levels) /\ distance >= levels[i].distance
    THEN Advance(levels, i + 1, distance)
    ELSE i - 1

LODUpdate(node, mv, distance) ==
  IF Len(node.levels) > 1
    THEN LET sel == node.levels[Advance(node.levels, 2, distance)].object
             objs == { node.levels[i].object : i \in 1 .. Len(node.levels) }
             hasOrig == \E o \in objs : o.orig
         IN [node |-> [node EXCEPT !.visible = IF sel.orig THEN {} ELSE {sel.k}],
             mv |-> IF hasOrig THEN [mv EXCEPT ![node.mesh] = sel.orig] ELSE mv]
    ELSE [node |-> node, mv |-> mv]

\* the forEach of updateLOD over the Map's entries, in insertion order
RECURSIVE UpdateAll(_, _, _, _, _)
UpdateAll(map, i, nds, mv, distance) ==
  IF i > Len(map) THEN [nodes |-> nds, mv |-> mv]
  ELSE LET n == map[i].node
           u == LODUpdate(nds[n], mv, distance)
       IN UpdateAll(map, i + 1, [nds EXCEPT ![n] = u.node], u.mv, distance)

\* updateLOD(camera) with the camera at the given distance
UpdateLOD ==
  \E d \in UpdateDistances :
    LET u == IF ~config.autoSwitch THEN [nodes |-> nodes, mv |-> meshVisible]
             ELSE UpdateAll(lodObjects, 1, nodes, meshVisible, d)
    IN /\ nodes' = u.nodes
       /\ meshVisible' = u.mv
       /\ last' = Call("update", 0, d)
       /\ UNCHANGED << config, lodObjects, geom, inScene, unboundTHREE >>
       /\ UNCHANGED << held, aside >>

\* setLODLevel: child.visible = (index === level) over lodObject.children
SetVisibleChild(node, mv, level) ==
  LET at(i) == node.children[i + 1]
      idx == 0 .. (Len(node.children) - 1)
  IN [node |-> [node EXCEPT !.visible =
                  { at(i).k : i \in { j \in idx : ~at(j).orig /\ j = level } }],
      mv |-> IF \E i \in idx : at(i).orig
               THEN [mv EXCEPT ![node.mesh] = \E i \in idx : at(i).orig /\ i = level]
               ELSE mv]

\* setLODLevel with the range check off by one (level <= levels.length)
SetLODLevelInclusive(ids, ks) ==
  \E id \in ids, level \in ks :
    LET n == MapGet(lodObjects, id)
        s == IF n # NoNode /\ level >= 0 /\ level <= Len(config.levels)
               THEN SetVisibleChild(nodes[n], meshVisible, level)
               ELSE [node |-> IF n # NoNode THEN nodes[n] ELSE Dead, mv |-> meshVisible]
    IN /\ nodes' = IF n # NoNode THEN [nodes EXCEPT ![n] = s.node] ELSE nodes
       /\ meshVisible' = s.mv
       /\ last' = Call("setLevel", id, level)
       /\ UNCHANGED << config, lodObjects, geom, inScene, unboundTHREE >>
       /\ UNCHANGED << held, aside >>

SetLODLevelOf(ids, ks) ==
  \E id \in ids, level \in ks :
    LET n == MapGet(lodObjects, id)
        s == IF n # NoNode /\ level >= 0 /\ level < Len(config.levels)
               THEN SetVisibleChild(nodes[n], meshVisible, level)
               ELSE [node |-> IF n # NoNode THEN nodes[n] ELSE Dead, mv |-> meshVisible]
    IN /\ nodes' = IF n # NoNode THEN [nodes EXCEPT ![n] = s.node] ELSE nodes
       /\ meshVisible' = s.mv
       /\ last' = Call("setLevel", id, level)
       /\ UNCHANGED << config, lodObjects, geom, inScene, unboundTHREE >>
       /\ UNCHANGED << held, aside >>

\* setConfig with a partial config: {...this.config, ...config}
Merge(cfg, partial) ==
  [f \in DOMAIN cfg |-> IF f \in DOMAIN partial THEN partial[f] ELSE cfg[f]]

SwitchPartials == { [autoSwitch |-> b] : b \in BOOLEAN }
LevelPartials == { [levels |-> ls] : ls \in LevelChoices }

\* the partial is a literal of the caller: its levels array is a new one, so
\* an array the caller held from before is no longer the manager's
SetConfigTo(partials) ==
  \E partial \in partials :
    /\ config' = Merge(config, partial)
    /\ held' = IF "levels" \in DOMAIN partial THEN [held EXCEPT !.shares = FALSE] ELSE held
    /\ last' = Call("setConfig", 0, 0)
    /\ UNCHANGED << lodObjects, nodes, geom, inScene, meshVisible, unboundTHREE >>
    /\ UNCHANGED aside

\* getConfig: { ...this.config } is a new object whose levels field refers to
\* the array this.config.levels refers to
GetConfig ==
  /\ held' = Held(config.levels, config.autoSwitch, TRUE)
  /\ last' = Call("getConfig", 0, 0)
  /\ UNCHANGED << config, lodObjects, nodes, geom, inScene, meshVisible, unboundTHREE >>
  /\ UNCHANGED aside

\* setConfig(held): { ...this.config, ...config } takes over the reference to
\* the caller's levels array
SetConfigHeld ==
  /\ held.levels # << >>
  /\ config' = Merge(config, [levels |-> held.levels, autoSwitch |-> held.autoSwitch])
  /\ held' = [held EXCEPT !.shares = TRUE]
  /\ last' = Call("setConfig", 0, 1)
  /\ UNCHANGED << lodObjects, nodes, geom, inScene, meshVisible, unboundTHREE >>
  /\ UNCHANGED aside

\* what a caller may do to the object it holds: flip its autoSwitch field
\* (0), flip the visible field of the i-th level entry (i), drop the last
\* entry of its levels array (0 - 1)
MutableEntries == {2}
Mutations == {0, 0 - 1} \cup MutableEntries

Mutated(h, kind) ==
  IF kind = 0 THEN [h EXCEPT !.autoSwitch = ~@]
  ELSE IF kind < 0 THEN [h EXCEPT !.levels = SubSeq(@, 1, Len(@) - 1)]
  ELSE [h EXCEPT !.levels[kind].visible = ~@]

\* the caller changes the object it holds; an array the manager refers to
\* changes for the manager too
MutateHeld ==
  \E kind \in Mutations :
    /\ held.levels # << >>
    /\ kind < 0 => Len(held.levels) > 1
    /\ kind > 0 => kind <= Len(held.levels)
    /\ held' = Mutated(held, kind)
    /\ config' = IF held.shares THEN [config EXCEPT !.levels = held'.levels] ELSE config
    /\ last' = Call("mutate", 0, kind)
    /\ UNCHANGED << lodObjects, nodes, geom, inScene, meshVisible, unboundTHREE >>
    /\ UNCHANGED aside

\* dispose without this.lodObjects.clear()
DisposeKeepingEntries ==
  /\ nodes' = [n \in NodeIDs |->
                IF n \in MapNodes(lodObjects) THEN [nodes[n] EXCEPT !.attached = FALSE]
                ELSE nodes[n]]
  /\ last' = Call("dispose", 0, IF last.op = "dispose" THEN 1 ELSE 0)
  /\ UNCHANGED << config, lodObjects, geom, inScene, meshVisible, unboundTHREE >>
  /\ UNCHANGED << held, aside >>

\* dispose: every registered node leaves its parent, then the Map is cleared
Dispose ==
  /\ nodes' = [n \in NodeIDs |-> IF n \in MapNodes(lodObjects) THEN Dead ELSE nodes[n]]
  /\ lodObjects' = << >>
  /\ last' = Call("dispose", 0, IF last.op = "dispose" THEN 1 ELSE 0)
  /\ UNCHANGED << config, geom, inScene, meshVisible, unboundTHREE >>
  /\ UNCHANGED << held, aside >>

\* dispose when child.geometry.dispose() or a material's dispose() throws at
\* the i-th entry: nothing catches it, so the forEach stops there. The nodes
\* of the entries before it have left their parents; the i-th node and the
\* ones after it have not, and this.lodObjects.clear() is not reached
DisposeThrowing ==
  \E i \in 1 .. Len(lodObjects) :
    /\ nodes[lodObjects[i].node].children # << >>
    /\ nodes' = [n \in NodeIDs |->
                   IF \E j \in 1 .. (i - 1) : lodObjects[j].node = n
                     THEN [nodes[n] EXCEPT !.attached = FALSE]
                     ELSE nodes[n]]
    /\ last' = Call("dispose", lodObjects[i].id, IF last.op = "dispose" THEN 1 ELSE 0)
    /\ UNCHANGED << config, lodObjects, geom, inScene, meshVisible, unboundTHREE >>
    /\ UNCHANGED << held, aside >>

\* IFCViewer.dispose() of a viewer whose state.models are the models ids: the
\* mesh of each of them leaves its parent, then this.lodManager.dispose()
\* makes every registered node leave its parent and clears the Map
ViewerDisposeOf(ids) ==
  /\ inScene' = [m \in ModelIDs |-> IF m \in ids THEN FALSE ELSE inScene[m]]
  /\ nodes' = [n \in NodeIDs |-> IF n \in MapNodes(lodObjects) THEN Dead ELSE nodes[n]]
  /\ lodObjects' = << >>
  /\ last' = Call("viewerDispose", 0, 0)
  /\ UNCHANGED << config, geom, meshVisible, unboundTHREE >>
  /\ UNCHANGED << held, aside >>

\* IFCViewer.dispose() when this.lodManager.dispose() throws at the i-th
\* entry: the meshes have left their parents by then, and the exception
\* leaves the viewer's dispose as it left the manager's
ViewerDisposeThrowingOf(ids) ==
  \E i \in 1 .. Len(lodObjects) :
    /\ nodes[lodObjects[i].node].children # << >>
    /\ inScene' = [m \in ModelIDs |-> IF m \in ids THEN FALSE ELSE inScene[m]]
    /\ nodes' = [n \in NodeIDs |->
                   IF \E j \in 1 .. (i - 1) : lodObjects[j].node = n
                     THEN [nodes[n] EXCEPT !.attached = FALSE]
                     ELSE nodes[n]]
    /\ last' = Call("viewerDispose", lodObjects[i].id, 0)
    /\ UNCHANGED << config, lodObjects, geom, meshVisible, unboundTHREE >>
    /\ UNCHANGED << held, aside >>

\* decimateVertices(positions, targetCount) called on its own
DecimateCall ==
  /\ ~simplified.called
  /\ simplified' = [called |-> TRUE,
                    threw |-> Decimate(positions, targetCount, ~unboundTHREE).threw,
                    positions |-> Decimate(positions, targetCount, ~unboundTHREE).positions]
  /\ UNCHANGED << lodVars, positions, targetCount, held, appVars, viewerVars >>

\* the viewer puts a loaded mesh under the scene (IFCViewer.loadIFC)
SceneAddOf(ids) ==
  \E m \in ids :
    /\ ~inScene[m]
    /\ inScene' = [inScene EXCEPT ![m] = TRUE]
    /\ last' = Call("sceneAdd", m, 0)
    /\ UNCHANGED << config, lodObjects, nodes, geom, meshVisible, unboundTHREE >>
    /\ UNCHANGED << held, aside >>

\* ------------------------------------------------- App.loadDefaultIFC
maxRetries == 3

\* what the server may answer and how large the body may be
Statuses == {200, 204, 404, 500}
BlobSizes == {0, 1}

\* response.ok
Ok(st) == st >= 200 /\ st <= 299

\* showLoading(show)
ShowLoading(show) == IF show THEN "on" ELSE "off"

\* showMessage(message, type): the type of the message last shown
ShowMessage(type) == type

\* the finally block: showLoading(false) when retryCount >= maxRetries or
\* retryCount === 0, the button left alone otherwise
Finally(count, b) == IF count >= maxRetries \/ count = 0 THEN ShowLoading(FALSE) ELSE b

\* new App() calls loadDefaultIFC after setupPoCMode
LoadDefaultIFC ==
  /\ pc = "idle"
  /\ pc' = "while"
  /\ retryCount' = 0
  /\ UNCHANGED << attempts, button, status, error, message >>
  /\ UNCHANGED << lodVars, decVars, held, viewerVars >>

\* the while test and the try block up to await fetch(...)
Attempt ==
  /\ pc = "while"
  /\ IF retryCount < maxRetries
       THEN /\ button' = ShowLoading(TRUE)
            /\ attempts' = attempts + 1
            /\ pc' = "fetch"
       ELSE /\ pc' = "done"
            /\ UNCHANGED << button, attempts >>
  /\ UNCHANGED << retryCount, status, error, message >>
  /\ UNCHANGED << lodVars, decVars, held, viewerVars >>

\* the catch block entered with the error e, and the finally block when it
\* follows at once (on break); before a retry the call waits 2 seconds first
Catch(e) ==
  /\ retryCount' = retryCount + 1
  /\ error' = e
  /\ IF retryCount + 1 >= maxRetries
       THEN /\ message' = ShowMessage("error")
            /\ button' = Finally(retryCount + 1, button)
            /\ pc' = "done"
       ELSE /\ pc' = "sleep"
            /\ UNCHANGED << message, button >>

\* fetch settles: rejected, or a response with some status
FetchSettles ==
  /\ pc = "fetch"
  /\ \/ /\ Catch("network")
        /\ UNCHANGED status
     \/ \E st \in Statuses :
          /\ status' = st
          /\ IF Ok(st)
               THEN /\ pc' = "blob"
                    /\ UNCHANGED << retryCount, error, message, button >>
               ELSE Catch("http")
  /\ UNCHANGED attempts
  /\ UNCHANGED << lodVars, decVars, held, viewerVars >>

\* response.blob() settles: rejected, or a blob of some size
BlobSettles ==
  /\ pc = "blob"
  /\ \/ Catch("body")
     \/ \E size \in BlobSizes :
          IF size = 0 THEN Catch("empty")
          ELSE /\ pc' = "loadIFC"
               /\ UNCHANGED << retryCount, error, message, button >>
  /\ UNCHANGED << attempts, status >>
  /\ UNCHANGED << lodVars, decVars, held, viewerVars >>

\* viewer.loadIFC(file) comes to its end: it emits 'model-loaded', whose
\* listener handleModelLoaded shows a message, and resolves
HandleModelLoaded ==
  /\ pc = "loadIFC"
  /\ message' = ShowMessage("success")
  /\ pc' = "loaded"
  /\ UNCHANGED << retryCount, attempts, button, status, error >>
  /\ UNCHANGED << lodVars, decVars, held, viewerVars >>

\* viewer.loadIFC(file) settles: resolved (loadDefaultIFC resumes with
\* showMessage, return and the finally block) or rejected
LoadIFCSettles ==
  /\ \/ /\ pc = "loaded"
        /\ message' = ShowMessage("success")
        /\ button' = Finally(retryCount, button)
        /\ pc' = "done"
        /\ UNCHANGED << retryCount, error >>
     \/ /\ pc = "loadIFC"
        /\ Catch("load")
  /\ UNCHANGED << attempts, status >>
  /\ UNCHANGED << lodVars, decVars, held, viewerVars >>

\* the 2 second timer fires: the finally block, then the loop again
TimerFires ==
  /\ pc = "sleep"
  /\ button' = Finally(retryCount, button)
  /\ pc' = "while"
  /\ UNCHANGED << retryCount, attempts, status, error, message >>
  /\ UNCHANGED << lodVars, decVars, held, viewerVars >>

\* handleToggleLOD, the click listener of #toggle-lod: a click is handled
\* once the constructor has returned, while loadDefaultIFC waits or after it
\* has finished
HandleToggleLOD ==
  /\ pc \in {"fetch", "blob", "loadIFC", "sleep", "done"}
  /\ message' = ShowMessage("success")
  /\ UNCHANGED << pc, retryCount, attempts, button, status, error >>
  /\ UNCHANGED << lodVars, decVars, held, viewerVars >>

NextApp ==
  \/ HandleToggleLOD
  \/ HandleModelLoaded
  \/ LoadDefaultIFC
  \/ Attempt
  \/ FetchSettles
  \/ BlobSettles
  \/ LoadIFCSettles
  \/ TimerFires

SpecApp == Init /\ [][NextApp]_vars

\* ------------------------------------------------ IFCViewer selection
MaxClicks == 4

\* selectObject from the await of getObjectProperties on: the assignment
\* to state.selectedObject and the emit
Selected(object) ==
  /\ selectedObject' = object
  /\ lastEvent' = "object-selected"

\* handleClick when the ray hits an object: selectObject runs up to its
\* await; with enableProperties off there is no await and it runs through
ClickObject ==
  \E object \in Objects :
    /\ clicks < MaxClicks
    /\ clicks' = clicks + 1
    /\ lastClick' = object
    /\ IF enableProperties
         THEN /\ pending' = Append(pending, object)
              /\ UNCHANGED << selectedObject, lastEvent >>
         ELSE /\ Selected(object)
              /\ UNCHANGED pending
    /\ UNCHANGED enableProperties
    /\ UNCHANGED << lodVars, decVars, held, appVars >>

\* handleClick when the ray hits nothing: deselectObject
ClickNothing ==
  /\ clicks < MaxClicks
  /\ clicks' = clicks + 1
  /\ lastClick' = NoObject
  /\ IF selectedObject # NoObject
       THEN /\ selectedObject' = NoObject
            /\ lastEvent' = "object-deselected"
       ELSE UNCHANGED << selectedObject, lastEvent >>
  /\ UNCHANGED << enableProperties, pending >>
  /\ UNCHANGED << lodVars, decVars, held, appVars >>

\* the property look-up of one of the waiting selectObject calls settles
\* (getObjectProperties catches a failure and resolves with no properties)
PropertiesSettle ==
  \E i \in 1 .. Len(pending) :
    /\ Selected(pending[i])
    /\ pending' = SubSeq(pending, 1, i - 1) \o SubSeq(pending, i + 1, Len(pending))
    /\ UNCHANGED << enableProperties, lastClick, clicks >>
    /\ UNCHANGED << lodVars, decVars, held, appVars >>

InitViewer ==
  /\ InitLOD
  /\ NoDecimation
  /\ NoLoad
  /\ \E properties \in BOOLEAN : ViewerWith(properties)

NextViewer ==
  \/ ClickObject
  \/ ClickNothing
  \/ PropertiesSettle

SpecViewer == InitViewer /\ [][NextViewer]_vars

\* one loaded model, every input
RegisterModel == RegisterModelOf(Single, MaxFaults)
UnregisterModel == UnregisterModelOf(Single)
SetLODLevel == SetLODLevelOf(Single, (0 - 1) .. MaxLevels)
SetConfig == SetConfigTo(SwitchPartials \cup LevelPartials)
SceneAdd == SceneAddOf(Single)
ViewerDispose == ViewerDisposeOf(Single)

Next ==
  \/ RegisterModel
  \/ UnregisterModel
  \/ UpdateLOD
  \/ SetLODLevel
  \/ SetConfig
  \/ Dispose
  \/ SceneAdd
  \/ ViewerDispose

Spec == Init /\ [][Next]_vars

\* two loaded models, synthesis never failing, the level list as constructed
RegisterEither == RegisterModelOf(ModelIDs, 0)
UnregisterEither == UnregisterModelOf(ModelIDs)
SetLevelEither == SetLODLevelOf(ModelIDs, {0, 1, MaxLevels - 1})
SetAutoSwitch == SetConfigTo(SwitchPartials)
SceneAddEither == SceneAddOf(ModelIDs)
ViewerDisposeEither == ViewerDisposeOf(ModelIDs)
ViewerDisposeThrowing == ViewerDisposeThrowingOf(ModelIDs)

NextMulti ==
  \/ RegisterEither
  \/ UnregisterEither
  \/ UpdateLOD
  \/ SetLevelEither
  \/ SetAutoSwitch
  \/ Dispose
  \/ SceneAddEither
  \/ ViewerDisposeEither

SpecMulti == Init /\ [][NextMulti]_vars

\* two loaded models, and a release that may throw during dispose
NextRelease ==
  \/ RegisterEither
  \/ UnregisterEither
  \/ UpdateLOD
  \/ SetLevelEither
  \/ SetAutoSwitch
  \/ Dispose
  \/ DisposeThrowing
  \/ SceneAddEither
  \/ ViewerDisposeEither
  \/ ViewerDisposeThrowing

SpecRelease == Init /\ [][NextRelease]_vars

\* one loaded model whose synthesis never fails, registered and unregistered
\* while the configuration is replaced
RegisterSound == RegisterModelOf(Single, 0)

NextConfig ==
  \/ RegisterSound
  \/ UnregisterModel
  \/ SetConfig
  \/ Dispose
  \/ SceneAdd
  \/ ViewerDispose

SpecConfig == Init /\ [][NextConfig]_vars

\* decimateVertices on its own: the buffers it may be given are those of a
\* mesh of up to MaxVerts points, all different or repeating, and the target
\* counts are the ones its contract allows (3 and up)
Repeating(n) == [i \in 1 .. n |-> Point((i % 3) + 1)]
BufferChoices == UNION { {Points(n), Repeating(n)} : n \in 0 .. MaxVerts }
TargetChoices == 3 .. (MaxVerts + 2)

\* one loaded model and a caller who keeps the configuration objects it
\* passes in or gets back; the manager is constructed with no argument or
\* with the caller's object
InitSnapshot ==
  /\ NoDecimation
  /\ NoLoad
  /\ NoClicks
  /\ \/ InitLOD
     \/ \E ls \in LevelChoices :
          /\ InitWith(Merge(DefaultConfig, [levels |-> ls]))
          /\ held = Held(ls, TRUE, TRUE)

NextSnapshot ==
  \/ RegisterSound
  \/ UnregisterModel
  \/ SetConfig
  \/ GetConfig
  \/ SetConfigHeld
  \/ MutateHeld
  \/ ViewerDispose

SpecSnapshot == InitSnapshot /\ [][NextSnapshot]_vars

InitDecimate ==
  /\ InitLOD
  /\ NoLoad
  /\ NoClicks
  /\ positions \in BufferChoices
  /\ targetCount \in TargetChoices
  /\ simplified = NotCalled

NextDecimate == DecimateCall

SpecDecimate == InitDecimate /\ [][NextDecimate]_vars

\* ------------------------------------------------------------ claims
\* the level instances a LOD node was given, and those of them visible
LevelObjs(node) == { node.levels[i].object : i \in 1 .. Len(node.levels) }
VisibleObjs(node) == { o \in LevelObjs(node) : IsVisible(node, o) }
ManagedIDs == { id \in ModelIDs : Managed(id) }

\* C1: with autoSwitch on, after registerModel and any number of
\* updateSelection calls, every managed model has exactly one visible level
\* instance.
C1_ExactlyOneVisible ==
  (config.autoSwitch /\ last.op \in {"register", "update"}) =>
    \A id \in ManagedIDs : Cardinality(VisibleObjs(NodeOf(id))) = 1

\* C2: currentLevel returns the highest index among the enabled level specs
\* whose threshold is at most the distance, 0 at distance 0, and never the
\* index of a disabled level.
EnabledUpTo(d) ==
  { i \in 0 .. (Len(config.levels) - 1) :
      config.levels[i + 1].visible /\ config.levels[i + 1].distance <= d }

C2_CurrentLevelEnabled ==
  \A id \in ManagedIDs : \A d \in Distances :
    LET r == GetCurrentLODLevel(id, d)
    IN /\ r \in EnabledUpTo(d)
       /\ \A i \in EnabledUpTo(d) : i <= r
       /\ (d = 0 => r = 0)

\* C3: after setLevel(id, k) with k in range, the instance built from level
\* spec k is visible and it is the only visible instance of the model.
C3_SetLevelShowsSpec ==
  (/\ last.op = "setLevel"
   /\ Managed(last.id)
   /\ last.arg >= 0
   /\ last.arg < Len(config.levels)) =>
    LET node == NodeOf(last.id)
    IN /\ VisibleObjs(node) = { o \in LevelObjs(node) : o.k = last.arg }
       /\ Cardinality(VisibleObjs(node)) = 1

\* the level LOD.update is meant to leave visible at a distance: the built
\* level with the greatest threshold not above it, the first one otherwise
SelectedObj(node, d) ==
  LET reached == { i \in 1 .. Len(node.levels) : node.levels[i].distance <= d }
  IN node.levels[IF reached = {} THEN 1
                 ELSE CHOOSE i \in reached : \A j \in reached : j <= i].object

InRange(call) ==
  /\ call.op = "setLevel"
  /\ Managed(call.id)
  /\ call.arg >= 0
  /\ call.arg < Len(config.levels)

\* C4: with autoSwitch off, updateSelection changes no visibility flag; with
\* autoSwitch on, the first updateSelection after a setLevel leaves the
\* distance-selected level as the only visible one.
C4_UpdateAfterPin ==
  [][ (last'.op = "update") =>
        IF ~config.autoSwitch
          THEN nodes' = nodes /\ meshVisible' = meshVisible
          ELSE InRange(last) =>
                 \A id \in ManagedIDs :
                   VisibleObjs(NodeOf(id))' = {SelectedObj(NodeOf(id), last'.arg)} ]_vars

\* the position attribute a level instance holds: Mesh.clone hands the clone
\* the geometry object of its source
InstancePositions(node, obj) == geom[node.mesh]
InstanceOf(node, k) == { o \in LevelObjs(node) : o.k = k }
EnabledLevels == { k \in 0 .. (Len(config.levels) - 1) : config.levels[k + 1].visible }
NoFault(call) == \A i \in 1 .. Len(call.fail) : call.fail[i] = "none"

\* C5: registration leaves the source mesh's vertex data as it was: no level
\* instance decimates a buffer it shares with the source or with a sibling.
C5_SourceUntouched ==
  (last.op = "register") => Len(geom[last.id]) = last.n

\* the vertex count of an n-vertex buffer decimated for a ratio (hundredths)
TargetCount(n, ratio) == Max(3, (n * ratio) \div 100)
DecimatedCount(n, ratio) ==
  IF TargetCount(n, ratio) < n
    THEN Len(DecimateVertices(Points(n), TargetCount(n, ratio)))
    ELSE n

\* C6: after registering an n-vertex mesh, level 0 has n vertices and every
\* enabled level k > 0 with ratio < 1 holds the n-vertex original decimated
\* to max(3, floor(n * ratio)).
C6_LevelVertexCounts ==
  (last.op = "register" /\ NoFault(last)) =>
    LET node == NodeOf(last.id)
    IN /\ \A o \in InstanceOf(node, 0) : Len(InstancePositions(node, o)) = last.n
       /\ InstanceOf(node, 0) # {}
       /\ \A k \in EnabledLevels \ {0} :
            config.levels[k + 1].ratio < 100 =>
              /\ InstanceOf(node, k) # {}
              /\ \A o \in InstanceOf(node, k) :
                   Len(InstancePositions(node, o)) =
                     DecimatedCount(last.n, config.levels[k + 1].ratio)

\* C7: registerModel completes whatever fails in synthesis; a failing level
\* k > 0 is the only one omitted; a failing level 0 is replaced by the
\* unmodified original mesh as the model's level-0 instance.
C7_SynthesisFailureContained ==
  (last.op = "register") =>
    LET node == NodeOf(last.id)
    IN /\ Managed(last.id)
       /\ \A k \in EnabledLevels :
            /\ (k > 0 /\ last.fail[k + 1] # "none") => InstanceOf(node, k) = {}
            /\ (last.fail[k + 1] = "none" /\ ~unboundTHREE) => InstanceOf(node, k) # {}
       /\ (0 \in EnabledLevels /\ last.fail[1] # "none") =>
            /\ InstanceOf(node, 0) = {Obj(0, TRUE)}
            /\ \E i \in 1 .. Len(node.children) : node.children[i] = Obj(0, TRUE)
            /\ Len(geom[last.id]) = last.n

\* C8: registering a mesh that hangs under the scene leaves the LOD node
\* under the scene, the mesh no longer under it, and every level instance
\* built (a fallen-back level 0 included) a child of the LOD node.
C8_LODNodeTakesPlace ==
  (last.op = "register" /\ last.attached) =>
    LET node == NodeOf(last.id)
    IN /\ node.attached
       /\ ~inScene[last.id]
       /\ \A o \in LevelObjs(node) :
            \E i \in 1 .. Len(node.children) : node.children[i] = o

\* C9: the registry holds one entry per model id and one LOD node per entry:
\* no id twice, no node under two ids, no LOD node left alive (still under
\* the scene) that is not the registered one, and a registered id is managed.
C9_OneEntryPerId ==
  /\ \A i, j \in 1 .. Len(lodObjects) :
       (lodObjects[i].id = lodObjects[j].id \/ lodObjects[i].node = lodObjects[j].node)
         => i = j
  /\ Used(nodes) = MapNodes(lodObjects)
  /\ (last.op = "register" => Managed(last.id))
  /\ (last.op = "unregister" => ~Managed(last.id))

\* a managed id was registered again while another model stayed registered
C9_Witness ==
  /\ last.op = "register"
  /\ last.managed
  /\ Len(lodObjects) = 2

\* C10: dispose leaves an empty registry, no LOD node attached and a memory
\* footprint of zero in total and in every bucket; a dispose right after a
\* dispose changes nothing; a registerModel right after a dispose gives a
\* registry of that one model with every enabled level built.
C10_DisposeIdempotent ==
  [][ /\ (last'.op = "dispose") =>
           /\ lodObjects' = << >>
           /\ \A n \in NodeIDs : ~nodes'[n].attached
           /\ GetMemoryUsage'.total = 0
           /\ Len(GetMemoryUsage'.byLevel) = Len(config.levels)
           /\ \A i \in 1 .. Len(GetMemoryUsage'.byLevel) : GetMemoryUsage'.byLevel[i] = 0
           /\ (last.op = "dispose") =>
                UNCHANGED << config, lodObjects, nodes, geom, inScene, meshVisible >>
      /\ (last.op = "dispose" /\ last'.op = "register") =>
           /\ Len(lodObjects') = 1
           /\ MapHas(lodObjects', last'.id)
           /\ (~unboundTHREE /\ NoFault(last')) =>
                { o.k : o \in LevelObjs(nodes'[MapGet(lodObjects', last'.id)]) } = EnabledLevels ]_vars

\* a dispose made right after a dispose
C10_Witness ==
  /\ last.op = "dispose"
  /\ last.arg = 1
  /\ lodObjects = << >>

\* C11: dispose and unregisterModel never raise; when a release fails during
\* dispose the call still returns, every model has been processed (no LOD
\* node is left attached) and the registry is empty.
C11_ReleaseFailureContained ==
  /\ (last.op = "dispose") =>
       /\ last.id = 0
       /\ lodObjects = << >>
       /\ \A n \in NodeIDs : ~nodes[n].attached
  /\ (last.op = "unregister") => ~Managed(last.id)

\* the step decimateVertices takes and the number of indices 0, step, 2*step,
\* ... below n
Stride(n, t) == Max(1, n \div t)
Sampled(n, t) == Cardinality({ i \in 0 .. (n - 1) : i % Stride(n, t) = 0 })
Returned == simplified.called /\ ~simplified.threw

\* C12: decimate with targetCount >= originalCount returns exactly
\* originalCount points, equal to the input point for point, in order.
C12_NoOpAtOrAboveCount ==
  (Returned /\ targetCount >= Len(positions)) =>
    /\ Len(simplified.positions) = Len(positions)
    /\ simplified.positions = positions

\* a returned call with a target at or above the count of a buffer of points
C12_Witness ==
  /\ Returned
  /\ targetCount >= Len(positions)
  /\ Len(positions) >= 3
  /\ Len(simplified.positions) = Len(positions)

\* C13: for 3 <= targetCount < originalCount the number of points returned
\* differs from targetCount by less than stride and is at most originalCount.
C13_WithinOneStride ==
  (Returned /\ 3 <= targetCount /\ targetCount < Len(positions)) =>
    LET n == Len(positions)
        m == Len(simplified.positions)
    IN /\ m - targetCount < Stride(n, targetCount)
       /\ targetCount - m < Stride(n, targetCount)
       /\ m <= n

\* C13 as amended: for 3 <= targetCount < originalCount the number of points
\* returned is the number of indices 0, stride, 2*stride, ... below
\* originalCount; it is at least targetCount, less than twice targetCount
\* and at most originalCount.
C13_BetweenTargetAndTwice ==
  (Returned /\ 3 <= targetCount /\ targetCount < Len(positions)) =>
    LET n == Len(positions)
        m == Len(simplified.positions)
    IN /\ m * Stride(n, targetCount) >= n
       /\ (m - 1) * Stride(n, targetCount) < n
       /\ m >= targetCount
       /\ m < 2 * targetCount
       /\ m <= n

\* a returned call that gave more points than the target
C13_Witness ==
  /\ Returned
  /\ 3 <= targetCount
  /\ targetCount < Len(positions)
  /\ Len(simplified.positions) > targetCount
  /\ Stride(Len(positions), targetCount) >= 2

\* C14: the output is the input points at indices 0, stride, 2*stride, ...
\* in that order, each with its three coordinates unchanged.
C14_PureSubsampling ==
  Returned =>
    LET n == Len(positions)
        s == Stride(n, targetCount)
        out == simplified.positions
    IN /\ Len(out) = Sampled(n, targetCount)
       /\ \A j \in 1 .. Len(out) :
            /\ (j - 1) * s < n
            /\ \A c \in 1 .. Components : out[j][c] = positions[(j - 1) * s + 1][c]

\* a returned call that skipped points
C14_Witness ==
  /\ Returned
  /\ Stride(Len(positions), targetCount) >= 2
  /\ Len(simplified.positions) >= 3
  /\ simplified.positions # positions

\* the bytes of the position buffer of the instance a model holds for level
\* spec k (none: 0), summed over a set of models, and over all level specs
InstanceBytes(node, k) ==
  IF InstanceOf(node, k) = {} THEN 0
  ELSE BytesPerFloat * Components * Len(geom[node.mesh])

RECURSIVE LevelBytes(_, _)
LevelBytes(ids, k) ==
  IF ids = {} THEN 0
  ELSE LET id == CHOOSE x \in ids : TRUE
       IN InstanceBytes(NodeOf(id), k) + LevelBytes(ids \ {id}, k)

RECURSIVE BytesUpTo(_)
BytesUpTo(k) == IF k < 0 THEN 0 ELSE LevelBytes(ManagedIDs, k) + BytesUpTo(k - 1)

RECURSIVE SumSeq(_)
SumSeq(q) == IF q = << >> THEN 0 ELSE Head(q) + SumSeq(Tail(q))

\* C15: memoryFootprint's total is the sum of the position-buffer bytes of
\* all level instances of all managed models, perLevel[i] is the sum of the
\* bytes of the instances built from level spec i, total is the sum of the
\* buckets and every bucket is a finite non-negative number.
C15_FootprintByLevelSpec ==
  LET m == GetMemoryUsage
  IN /\ Len(m.byLevel) = Len(config.levels)
     /\ \A i \in 1 .. Len(m.byLevel) :
          /\ m.byLevel[i] >= 0
          /\ m.byLevel[i] = LevelBytes(ManagedIDs, i - 1)
     /\ m.total = BytesUpTo(MaxLevels - 1)
     /\ m.total = SumSeq(m.byLevel)

\* C16: for every managed model and viewpoint, currentLevel returns the index
\* of the level that updateSelection with the same viewpoint and autoSwitch
\* on makes visible (currentLevel itself reads the state and writes nothing).
C16_CurrentLevelMirrorsUpdate ==
  (last.op = "update" /\ config.autoSwitch) =>
    \A id \in ManagedIDs :
      LET node == NodeOf(id)
          k == GetCurrentLODLevel(id, last.arg)
      IN /\ InstanceOf(node, k) # {}
         /\ VisibleObjs(node) = InstanceOf(node, k)

\* C17: after getConfig, the constructor or setConfig, changing the object
\* the caller holds (a field, its levels sequence, a level entry) changes
\* nothing in the manager: its configuration, and so what currentLevel
\* answers, stay as they were.
C17_SnapshotImmutable ==
  [][ (last'.op = "mutate") =>
        /\ config' = config
        /\ \A id \in ModelIDs : \A d \in Distances :
             GetCurrentLODLevel(id, d)' = GetCurrentLODLevel(id, d) ]_vars

\* C18: setLevel with an index outside [0, levelCount) or an unmanaged id,
\* and unregisterModel with an unmanaged id, leave the registry and every
\* visibility flag as they were; currentLevel on an unmanaged id returns 0.
C18_InvalidArgumentsNoOp ==
  [][ /\ (/\ last'.op = "setLevel"
          /\ \/ ~Managed(last'.id)
             \/ last'.arg < 0
             \/ last'.arg >= Len(config.levels)) =>
           UNCHANGED << config, lodObjects, nodes, meshVisible, geom, inScene >>
      /\ (last'.op = "unregister" /\ ~Managed(last'.id)) =>
           UNCHANGED << config, lodObjects, nodes, meshVisible, geom, inScene >>
      /\ \A id \in ModelIDs : \A d \in Distances :
           ~Managed(id) => GetCurrentLODLevel(id, d) = 0 ]_vars

\* setLevel with the index levelCount on a managed model that shows a level
C18_Witness ==
  /\ last.op = "setLevel"
  /\ Managed(last.id)
  /\ last.arg = Len(config.levels)
  /\ VisibleObjs(NodeOf(last.id)) # {}

\* C19: a run of loadDefaultIFC makes at most 3 load attempts, and whenever
\* it has finished (after a success on any attempt or after the 3rd failure)
\* the last showLoading call was showLoading(false).
C19_LoadingOffWhenDone ==
  /\ attempts <= maxRetries
  /\ (pc = "done") => button = "off"

\* C20: once all pending selectObject calls have completed, selectedObject
\* is null if the last click hit no model and the object of the last click
\* if it hit one, and 'object-selected' is not the last event after a
\* deselecting click.
C20_LastClickWins ==
  (clicks > 0 /\ pending = << >>) =>
    /\ selectedObject = lastClick
    /\ (lastClick = NoObject) => lastEvent # "object-selected"

====
